---- MODULE Spec2Model ----
(***************************************************************************)
(* FlowQuery (Python port): the graph pattern matcher.                     *)
(*                                                                         *)
(* Data / RelationshipData cursors and indexes, the match collector,       *)
(* Relationship.find and Match.run, translated from flowquery-py/src.      *)
(*                                                                         *)
(* Encoding.  Python objects are TLA+ records that the operators thread    *)
(* through ("d" is a Data object, "st" the relationship together with its  *)
(* flanking nodes).  A raised exception is the field err # NoErr; every    *)
(* later statement of the aborted call is skipped.  Node ids are the       *)
(* naturals 1..MaxId and 0 stands for None / an empty node value.          *)
(* Cursor values are the Python integers of the code (-1 before the first  *)
(* record, len(records) past the end); records are kept in a TLA+          *)
(* sequence, so the record at cursor c is records[c + 1].                  *)
(***************************************************************************)
EXTENDS Integers, Sequences, FiniteSets, TLC

\* ------------------------------------------------------------------ bounds
MaxId == 3
MaxEdges == 2
MaxCalls == 2
MaxHops == 3
MaxRows == 2
MaxRuns == 3
MaxInits == 2
MaxLimit == 2
MaxLog == 5
MaxOps == 4
MaxSteps == 3
MaxRecords == 2
MaxChain == 5
MaxTokens == 4

Ids == 1..MaxId

NoErr == "none"
ErrCircular == "Circular relationship detected"
ErrNoProperty == "Relationship does not have property"
ErrNoData == "No current relationship data available"
ErrAttribute == "AttributeError"
ErrIndex == "IndexError"
ErrUnionColumns == "All sub queries in a UNION must have the same return column names"

\* ============================================================ graph/data.py

\* The row positions (0-based, ascending) of the records whose column
\* `name` holds `key`: the _positions list that _build_index fills through
\* IndexEntry.add.
RECURSIVE PositionsFrom(_, _, _, _)
PositionsFrom(records, name, key, i) ==
    IF i > Len(records) THEN <<>>
    ELSE IF name \in DOMAIN records[i] /\ records[i][name] = key
         THEN <<i - 1>> \o PositionsFrom(records, name, key, i + 1)
         ELSE PositionsFrom(records, name, key, i + 1)

Positions(records, name, key) == PositionsFrom(records, name, key, 1)

\* IndexEntry.next on an entry whose state is its _index.
EntryNext(positions, index) ==
    IF index < Len(positions) - 1
    THEN [index |-> index + 1, more |-> TRUE]
    ELSE [index |-> index, more |-> FALSE]

\* IndexEntry.position
EntryPosition(positions, index) == positions[index + 1]

\* Layer.__init__: a layer is its index maps (name -> key -> _index), the
\* insertion order of the index names, and the cursor.
NewLayer(indexes, order) == [indexes |-> indexes, order |-> order, current |-> -1]

\* Data.__init__
NewData(records) ==
    [records |-> records, layers |-> (0 :> NewLayer(<<>>, <<>>))]

\* Layer.index: get or create the index called `name`.
LayerIndex(lay, name) ==
    IF name \in DOMAIN lay.indexes THEN lay
    ELSE [lay EXCEPT !.indexes = (name :> <<>>) @@ lay.indexes,
                     !.order = Append(lay.order, name)]

\* Data.layer: get or create the layer of `level`; a new layer clones the
\* index entries of layer 0, each clone starting at _index = -1.
DataLayer(d, level) ==
    IF level \in DOMAIN d.layers THEN d
    ELSE LET first == d.layers[0]
             cloned == [n \in DOMAIN first.indexes |->
                          [k \in DOMAIN first.indexes[n] |-> -1]]
         IN [d EXCEPT !.layers = (level :> NewLayer(cloned, first.order)) @@ d.layers]

\* Data._build_index(key) on level 0.
BuildIndex(d, name) ==
    LET d1 == DataLayer(d, 0)
        lay == LayerIndex(d1.layers[0], name)
        keys == {d.records[i][name] : i \in {j \in 1..Len(d.records) : name \in DOMAIN d.records[j]}}
    IN [d1 EXCEPT !.layers[0] = [lay EXCEPT !.indexes[name] = [k \in keys |-> -1]]]

\* Data._find: advance the entry of `key` in the index `index_name` of the
\* level and put the cursor on its position; "" stands for index_name None.
\* The tail of _find once the entry of `key` is known to exist: the entry
\* advances and the cursor follows it, or the cursor goes past the end.
DataFindEntry_level0(d2, key, level, name, positions, nx) ==
    IF ~nx.more
    THEN [d |-> [d2 EXCEPT !.layers[level].current = Len(d2.records)], ok |-> FALSE]
    ELSE [d |-> [d2 EXCEPT !.layers[0].indexes[name][key] = nx.index,
                           !.layers[level].current = EntryPosition(positions, nx.index)],
          ok |-> TRUE]

DataFindEntry(d2, key, level, name, positions, nx) ==
    IF ~nx.more
    THEN [d |-> [d2 EXCEPT !.layers[level].current = Len(d2.records)], ok |-> FALSE]
    ELSE [d |-> [d2 EXCEPT !.layers[level].indexes[name][key] = nx.index,
                           !.layers[level].current = EntryPosition(positions, nx.index)],
          ok |-> TRUE]

\* _find on the layer l = self.layer(level), already part of d2: the index
\* is the named one or the first of the layer.
DataFindLayer(d2, key, level, index_name) ==
    LET lay == d2.layers[level]
        hasIdx == IF index_name # "" THEN TRUE ELSE Len(lay.order) > 0
        name == IF index_name # "" THEN index_name
                ELSE IF Len(lay.order) > 0 THEN lay.order[1] ELSE ""
    IN IF ~hasIdx \/ key \notin DOMAIN lay.indexes[name]
       THEN [d |-> [d2 EXCEPT !.layers[level].current = Len(d2.records)], ok |-> FALSE]
       ELSE DataFindEntry(d2, key, level, name,
                          Positions(d2.records, name, key),
                          EntryNext(Positions(d2.records, name, key), lay.indexes[name][key]))

\* The layer of _find with the index it looks up: l.index(index_name)
\* creates a missing named index.
DataFindIndex(d1, level, index_name) ==
    IF index_name # ""
    THEN [d1 EXCEPT !.layers[level] = LayerIndex(@, index_name)]
    ELSE d1

DataFind(d, key, level, index_name) ==
    DataFindLayer(DataFindIndex(DataLayer(d, level), level, index_name),
                  key, level, index_name)

\* Data.reset
DataReset_cursors(d) ==
    [d EXCEPT !.layers =
        [l \in DOMAIN d.layers |-> [d.layers[l] EXCEPT !.current = -1]]]

DataReset(d) ==
    [d EXCEPT !.layers =
        [l \in DOMAIN d.layers |->
            [d.layers[l] EXCEPT !.current = -1,
                                !.indexes = [n \in DOMAIN d.layers[l].indexes |->
                                               [k \in DOMAIN d.layers[l].indexes[n] |-> -1]]]]]

\* Data.next
DataNextIn(d1, level) ==
    IF d1.layers[level].current < Len(d1.records) - 1
    THEN [d |-> [d1 EXCEPT !.layers[level].current = @ + 1], ok |-> TRUE]
    ELSE [d |-> d1, ok |-> FALSE]

DataNext(d, level) == DataNextIn(DataLayer(d, level), level)

\* Data.current: at is the 1-based place of the returned record in
\* d.records, 0 when the code returns None.  A cursor of -1 indexes the
\* list from its end (Python records[-1]); on an empty list that raises.
DataCurrentIn(d1, level) ==
    LET c == d1.layers[level].current
        n == Len(d1.records)
    IN IF c < n
       THEN IF c >= 0 THEN [d |-> d1, at |-> c + 1, err |-> NoErr]
            ELSE IF n + c >= 0 THEN [d |-> d1, at |-> n + c + 1, err |-> NoErr]
            ELSE [d |-> d1, at |-> 0, err |-> ErrIndex]
       ELSE [d |-> d1, at |-> 0, err |-> NoErr]

DataCurrent(d, level) == DataCurrentIn(DataLayer(d, level), level)

\* ================================================ graph/relationship_data.py

\* RelationshipData.__init__
NewRelationshipData(records) ==
    BuildIndex(BuildIndex(NewData(records), "left_id"), "right_id")

\* RelationshipData.find
RelationshipDataFind(d, id, hop, direction) ==
    LET key == IF direction = "left" THEN "right_id" ELSE "left_id"
    IN DataFind(d, id, hop, key)

\* The dict a record is reduced to by RelationshipData.properties.
PropsOf(rec) ==
    [k \in DOMAIN rec \ {"left_id", "right_id", "_type"} |-> rec[k]]

\* ===================================== graph/relationship_match_collector.py
\* A match record is [type, startNode, endNode, properties]; node values are
\* carried by their id, 0 for the empty value.  The default traversal_id /
\* next_id "" of the code is the id 0, which no node has.
NoId == 0

NoMatch == [type |-> "", startNode |-> 0, endNode |-> 0, properties |-> <<>>]

\* RelationshipMatchCollector.push: the record comes from the relationship's
\* source value and from rel_data.current() / rel_data.properties(), both
\* read at level 0.
CollectorPushCurrent(st, traversal_id, cur) ==
    LET start_node_value == IF st.source = "source" THEN st.aVal ELSE st.bVal
    IN IF cur.err # NoErr THEN [st EXCEPT !.err = cur.err]
       ELSE LET rec == IF cur.at = 0 THEN <<>> ELSE st.data.records[cur.at]
                actual_type == IF cur.at # 0 /\ "_type" \in DOMAIN rec
                               THEN rec["_type"] ELSE st.rtype
                rel_props == IF cur.at = 0 THEN <<>> ELSE PropsOf(rec)
                match == [type |-> actual_type, startNode |-> start_node_value,
                          endNode |-> 0, properties |-> rel_props]
            IN [st EXCEPT !.data = cur.d,
                          !.matches = Append(@, match),
                          !.node_ids = Append(@, traversal_id)]

CollectorPush(st, traversal_id) ==
    CollectorPushCurrent(st, traversal_id, DataCurrent(st.data, 0))

\* RelationshipMatchCollector.end_node setter.  While _value is the dict
\* matches[0] (tag "one", one entry on the stack) the write is seen through
\* it as well.
CollectorSetEndNode(st, node_value) ==
    IF Len(st.matches) = 0 THEN st
    ELSE LET n == Len(st.matches)
             s1 == [st EXCEPT !.matches[n].endNode = node_value]
         IN IF st.value.tag = "one" /\ n = 1
            THEN [s1 EXCEPT !.value.rec = s1.matches[1]]
            ELSE s1

\* RelationshipMatchCollector.pop
CollectorPop(st) ==
    [st EXCEPT !.node_ids = IF Len(@) > 0 THEN SubSeq(@, 1, Len(@) - 1) ELSE @,
               !.matches = IF Len(@) > 0 THEN SubSeq(@, 1, Len(@) - 1) ELSE @]

\* RelationshipMatchCollector.value: None, the single record, or the list
\* object itself (which later pushes and pops keep changing).
CollectorValue(st) ==
    IF Len(st.matches) = 0 THEN [tag |-> "none", rec |-> NoMatch]
    ELSE IF Len(st.matches) = 1 THEN [tag |-> "one", rec |-> st.matches[1]]
    ELSE [tag |-> "list", rec |-> NoMatch]

\* RelationshipMatchCollector.is_circular
IsCircular(node_ids, next_id) ==
    \E i \in 1..Len(node_ids) : node_ids[i] = next_id

\* ===================================================== graph/relationship.py

\* Relationship.set_value: push(relationship) with the default traversal_id.
SetValuePushed(s1) ==
    IF s1.err # NoErr THEN s1 ELSE [s1 EXCEPT !.value = CollectorValue(s1)]

SetValue(st) == SetValuePushed(CollectorPush(st, NoId))

\* Relationship.value() as a reader sees it: the records it holds.
RelValue(st) ==
    IF st.value.tag = "none" THEN <<>>
    ELSE IF st.value.tag = "one" THEN <<st.value.rec>>
    ELSE st.matches

\* Relationship._matches_properties: properties is the dict in insertion
\* order, a sequence of [key, value]; the for loop returns in its first
\* iteration.
MatchesFirstProperty(st, key, cur) ==
    IF cur.err # NoErr THEN [ok |-> FALSE, err |-> cur.err]
    ELSE IF cur.at = 0 THEN [ok |-> FALSE, err |-> ErrNoData]
    ELSE IF key \notin DOMAIN st.data.records[cur.at]
         THEN [ok |-> FALSE, err |-> ErrNoProperty]
    ELSE [ok |-> st.data.records[cur.at][key] = st.properties[1].value,
          err |-> NoErr]

MatchesProperties(st, hop) ==
    IF Len(st.properties) = 0 THEN [ok |-> TRUE, err |-> NoErr]
    ELSE MatchesFirstProperty(st, st.properties[1].key, DataCurrent(st.data, hop))

\* Hops.multi()
HopsUnbounded == 1000
HopsMulti(hmin, hmax) == hmax > 1

\* The continuation installed on the end node (todo_next): one emission,
\* with what the next operation can read at that moment.  trail is the
\* sequence of record places traversed by the active find() calls.
Fire(st) ==
    [st EXCEPT !.out = Append(@, [a |-> st.aVal, b |-> st.bVal,
                                  rtag |-> st.value.tag, r |-> RelValue(st),
                                  stack |-> st.matches, trail |-> st.trail,
                                  null |-> FALSE]),
               !.matched = TRUE]

\* Node.find of the pattern's end node: every node record of that id is
\* bound, reported to the incoming relationship and passed on.
NodeFind(st, id, hop) ==
    IF id \in st.nodes
    THEN Fire(CollectorSetEndNode([st EXCEPT !.bVal = id], id))
    ELSE st

IsLeft(direction) == direction = "left"

\* follow_id with the two columns exchanged.
FollowId_swapped(is_left) == IF is_left THEN "right_id" ELSE "left_id"

FollowId(is_left) == IF is_left THEN "left_id" ELSE "right_id"

\* find_match: find_reverse is called for a leftward relationship;
\* RelationshipData and Data define no such method.
FindMatchRight(f) == [d |-> f.d, ok |-> f.ok, err |-> NoErr]

FindMatch(st, id, h) ==
    IF IsLeft(st.direction)
    THEN [d |-> st.data, ok |-> FALSE, err |-> ErrAttribute]
    ELSE FindMatchRight(RelationshipDataFind(st.data, id, h, "right"))

\* The minimum test taken one hop early.
AtOrAboveMin_early(hop, hmin) == hop + 2 >= hmin

AtOrAboveMin(hop, hmin) == hop + 1 >= hmin

BelowMax(hop, hmax) == hop + 1 < hmax

\* Relationship.find up to its while loop: the source of a deeper hop is the
\* target, hop 0 resets the data and, for a variable-length relationship of
\* minimum 0, lets the target find the source id itself.
FindEnter(st, left_id, hop) ==
    IF hop > 0 THEN [st EXCEPT !.source = "target"]
    ELSE IF hop = 0 /\ HopsMulti(st.hmin, st.hmax) /\ st.hmin = 0
         THEN NodeFind([st EXCEPT !.data = DataReset(@)], left_id, hop)
         ELSE [st EXCEPT !.data = DataReset(@)]

\* Relationship.find after its while loop: the original source is restored
\* (not when an exception passes).
FindExit(s, original) ==
    IF s.err # NoErr THEN s ELSE [s EXCEPT !.source = original]

RECURSIVE Find(_, _, _), FindLoop(_, _, _)

\* The ghost trail loses the record the iteration stood on.
Leave(s) == [s EXCEPT !.trail = SubSeq(@, 1, Len(@) - 1)]

\* self._matches.pop() after the deeper hops returned.
FindPop(s3) == IF s3.err # NoErr THEN s3 ELSE Leave(CollectorPop(s3))

\* The below-minimum branch after its deeper find returned.
FindBelowMin(s1) == IF s1.err # NoErr THEN s1 ELSE Leave(s1)

\* After the end node was tried: the circularity test, then the deeper hop
\* while below the maximum.
FindOnward(s2, data, follow_id, hop) ==
    IF IsCircular(s2.node_ids, NoId)
    THEN [s2 EXCEPT !.err = ErrCircular]
    ELSE FindPop(IF BelowMax(hop, s2.hmax)
                 THEN Find(s2, data[follow_id], hop + 1) ELSE s2)

\* After set_value: mp is the outcome of _matches_properties(hop); a
\* mismatch continues the loop, a match tries the end node.
FindPushed(s1, mp, data, follow_id, hop) ==
    IF s1.err # NoErr THEN s1
    ELSE IF mp.err # NoErr THEN [s1 EXCEPT !.err = mp.err]
    ELSE IF ~mp.ok THEN Leave(s1)
    ELSE FindOnward(IF follow_id \in DOMAIN data
                    THEN NodeFind(s1, data[follow_id], hop) ELSE s1,
                    data, follow_id, hop)

\* The at-or-above-minimum branch: set_value(self), then the rest.
FindAtMin(s1, data, follow_id, hop) ==
    FindPushed(s1, MatchesProperties(s1, hop), data, follow_id, hop)

\* The loop body with data = self._data.current(hop), the record at place
\* `at`.
FindRecord(st, hop, at, follow_id) ==
    IF AtOrAboveMin(hop, st.hmin)
    THEN FindAtMin(SetValue([st EXCEPT !.trail = Append(@, at)]),
                   st.data.records[at], follow_id, hop)
    ELSE IF follow_id \in DOMAIN st.data.records[at]
         THEN FindBelowMin(Find([st EXCEPT !.trail = Append(@, at)],
                                st.data.records[at][follow_id], hop + 1))
         ELSE st

\* One iteration of the while loop of Relationship.find, the cursor of
\* level hop standing on a found record.
FindBody(st, left_id, hop) ==
    FindRecord(st, hop, DataCurrent(st.data, hop).at, FollowId(IsLeft(st.direction)))

\* The loop test with its outcome f = find_match(left_id, hop).
FindStep(st, f, left_id, hop) ==
    IF f.err # NoErr THEN [st EXCEPT !.err = f.err]
    ELSE IF ~f.ok THEN [st EXCEPT !.data = f.d]
    ELSE FindLoop(FindBody([st EXCEPT !.data = f.d], left_id, hop), left_id, hop)

\* while self._data and find_match(left_id, hop): ...
FindLoop(st, left_id, hop) ==
    IF st.err # NoErr THEN st
    ELSE FindStep(st, FindMatch(st, left_id, hop), left_id, hop)

\* Relationship.find(left_id, hop): entry, the while loop, exit.
Find(st, left_id, hop) ==
    FindExit(FindLoop(FindEnter(st, left_id, hop), left_id, hop), st.source)

\* Relationship.__init__ with the pattern's settings, data fetched.
NewRelationship(records, direction, hmin, hmax, properties, nodes) ==
    [direction |-> direction, hmin |-> hmin, hmax |-> hmax, rtype |-> "T",
     properties |-> properties, data |-> NewRelationshipData(records),
     matches |-> <<>>, node_ids |-> <<>>, value |-> [tag |-> "none", rec |-> NoMatch],
     source |-> "source", nodes |-> nodes, aVal |-> 0, bVal |-> 0,
     out |-> <<>>, trail |-> <<>>, matched |-> FALSE, err |-> NoErr]

\* ------------------------------------------------------------------ inputs
Edge(l, r) == [left_id |-> l, right_id |-> r]

PlainRecords == {Edge(l, r) : l \in Ids, r \in Ids}

RECURSIVE SeqsUpTo(_, _)
SeqsUpTo(S, n) ==
    IF n = 0 THEN {<<>>}
    ELSE LET shorter == SeqsUpTo(S, n - 1)
         IN shorter \cup {Append(q, x) : q \in {p \in shorter : Len(p) = n - 1}, x \in S}

HopChoices ==
    {h \in [min : 0..MaxHops - 1, max : (1..MaxHops) \cup {HopsUnbounded}] : h.min <= h.max}

\* The ids the end node's label holds.
NodeChoices == {Ids, 1..(MaxId - 1)}

PlainConfigs ==
    {NewRelationship(recs, dir, h.min, h.max, <<>>, nodes) :
        recs \in SeqsUpTo(PlainRecords, MaxEdges),
        dir \in {"right", "left", "both"},
        h \in HopChoices,
        nodes \in NodeChoices}

\* Records with property columns w and z, each absent, 1 or 2.
PropValues == {0, 1, 2}

WithProps(e, w, z) ==
    LET ew == IF w = 0 THEN e ELSE ("w" :> w) @@ e
    IN IF z = 0 THEN ew ELSE ("z" :> z) @@ ew

PropRecords ==
    {WithProps(Edge(1, r), w, z) : r \in 1..2, w \in PropValues, z \in PropValues}

Constraint(k, v) == [key |-> k, value |-> v]

ConstraintChoices ==
    {<<Constraint("w", 1)>>, <<Constraint("z", 1)>>,
     <<Constraint("w", 1), Constraint("z", 1)>>,
     <<Constraint("z", 1), Constraint("w", 1)>>}

PropHopChoices == {h \in HopChoices : h.max <= 2}

PropConfigs ==
    {NewRelationship(recs, "right", h.min, h.max, cs, nodes) :
        recs \in SeqsUpTo(PropRecords, MaxEdges),
        h \in PropHopChoices,
        cs \in ConstraintChoices,
        nodes \in {Ids}}

Configs == PlainConfigs \cup PropConfigs

\* ===================================================== operations/match.py
\* The patterns of the operation, by the shape of their one chain:
\*   "node"  (a:L)                   the start node is the end node
\*   "own"   (a:L)-[r:T]->(b:L)      the start node iterates its own records
\*   "ref"   (a)-[r:T]->(b:L)        the start node refers to the a bound by
\*                                   the preceding MATCH (a:L)
PatternKinds == {"node", "own", "ref"}

\* Patterns.traverse: Node.next of the start node.  A start node with data
\* binds each of its records in turn; a reference passes on the current
\* binding.
StartNodeBind(s, kind, id) ==
    IF kind = "node" THEN Fire([s EXCEPT !.aVal = id])
    ELSE Find([s EXCEPT !.aVal = id], id, 0)

RECURSIVE StartNodeNext(_, _, _, _)
StartNodeNext(s, kind, nodeSeq, i) ==
    IF i > Len(nodeSeq) \/ s.err # NoErr THEN s
    ELSE StartNodeNext(StartNodeBind(s, kind, nodeSeq[i]), kind, nodeSeq, i + 1)

Traversal(s, kind, nodeSeq, outerA) ==
    IF kind = "ref" THEN Find([s EXCEPT !.aVal = outerA], outerA, 0)
    ELSE StartNodeNext(s, kind, nodeSeq, 1)

\* element.set_value(None) for every Node of the chain; the reference keeps
\* the binding it refers to, the relationship is no Node.
SetNodesNull(s, kind) ==
    [s EXCEPT !.aVal = IF kind = "ref" THEN @ ELSE 0,
              !.bVal = IF kind = "node" THEN @ ELSE 0]

\* The run of the next operation with the values a failed OPTIONAL MATCH
\* leaves.
NullRow(s) ==
    [a |-> s.aVal, b |-> s.bVal, rtag |-> s.value.tag, r |-> RelValue(s),
     stack |-> s.matches, trail |-> <<>>, null |-> TRUE]

\* if self.next: await self.next.run() after the nodes were nulled.
NullRun(s2) == [s2 EXCEPT !.out = Append(@, NullRow(s2))]

\* Match.run after the traversal: nothing matched and OPTIONAL set nulls
\* the nodes and runs the next operation once.
MatchAfterTraverse(s1, optional, kind) ==
    IF s1.err # NoErr THEN s1
    ELSE IF ~s1.matched /\ optional THEN NullRun(SetNodesNull(s1, kind))
    ELSE s1

\* Match.run: s.out collects the runs of the next operation.
MatchRun(s, optional, kind, nodeSeq, outerA) ==
    MatchAfterTraverse(Traversal([s EXCEPT !.matched = FALSE, !.out = <<>>],
                                 kind, nodeSeq, outerA),
                       optional, kind)

VARIABLES st, calls, q, op, db
vars == <<st, calls, q, op, db>>

\* The values of op and db while no result operation and no database takes
\* part.
NoOp == [kind |-> "none"]
NoDb == [nodes |-> <<>>, relationships |-> <<>>]

NoQuery == [optional |-> FALSE, kind |-> "none", nodeSeq |-> <<>>, pos |-> 0, rows |-> <<>>]

Init == st \in Configs /\ calls = 0 /\ q = NoQuery /\ op = NoOp /\ db = NoDb

\* The start node hands one of its records to the relationship:
\* Relationship.find(id, 0).
Traverse(id) ==
    /\ st.err = NoErr
    /\ calls < MaxCalls
    /\ st' = Find([st EXCEPT !.aVal = id, !.out = <<>>], id, 0)
    /\ calls' = calls + 1
    /\ UNCHANGED <<q, op, db>>

Next == \E id \in Ids : Traverse(id)

Spec == Init /\ [][Next]_vars

\* ------------------------------------------------- the MATCH pipeline
NodeSeq(n) == [i \in 1..n |-> i]

MatchConfigs ==
    {NewRelationship(recs, "right", h.min, h.max, <<>>, Ids) :
        recs \in SeqsUpTo(PlainRecords, MaxEdges),
        h \in {g \in HopChoices : g.max <= 2}}
    \cup
    {NewRelationship(recs, "right", 1, 1, cs, Ids) :
        recs \in SeqsUpTo(PropRecords, 1), cs \in ConstraintChoices}

InitMatch ==
    /\ st \in MatchConfigs
    /\ calls = 0
    /\ q \in {[optional |-> o, kind |-> k, nodeSeq |-> NodeSeq(n), pos |-> 0, rows |-> <<>>] :
                o \in BOOLEAN, k \in PatternKinds, n \in 1..MaxId}
    /\ op = NoOp
    /\ db = NoDb

\* MATCH (a:L) drives the (OPTIONAL) MATCH after it once per node record:
\* one invocation of Match.run with the next a.
RunAfterMatch ==
    /\ q.kind = "ref"
    /\ st.err = NoErr
    /\ q.pos < Len(q.nodeSeq)
    /\ st' = MatchRun(st, q.optional, q.kind, q.nodeSeq, q.nodeSeq[q.pos + 1])
    /\ q' = [q EXCEPT !.pos = @ + 1, !.rows = @ \o st'.out]
    /\ calls' = calls + 1
    /\ UNCHANGED <<op, db>>

\* A (OPTIONAL) MATCH at the head of its pipeline, run once per run of the
\* statement.
RunFirst ==
    /\ q.kind \in {"node", "own"}
    /\ st.err = NoErr
    /\ calls < MaxCalls
    /\ st' = MatchRun(st, q.optional, q.kind, q.nodeSeq, 0)
    /\ q' = [q EXCEPT !.rows = st'.out]
    /\ calls' = calls + 1
    /\ UNCHANGED <<op, db>>

NextMatch == RunAfterMatch \/ RunFirst

SpecMatch == InitMatch /\ [][NextMatch]_vars

\* ============================================== graph/pattern_expression.py
\* PatternExpression.evaluate: _evaluation is the field matched, which the
\* continuation installed on the end node sets; the start node is a
\* NodeReference, whose next() hands the referenced node's current id to
\* the relationship.
PatternEvaluate(s, a) ==
    Find([s EXCEPT !.matched = FALSE, !.aVal = a, !.out = <<>>], a, 0)

\* PatternExpression.value
PatternValue(s) == s.matched

InitPattern ==
    /\ st \in MatchConfigs
    /\ calls = 0
    /\ q = NoQuery
    /\ op = NoOp
    /\ db = NoDb

\* The WHERE clause holding the pattern expression is evaluated for one
\* binding of the referenced node.
Evaluate(a) ==
    /\ st.err = NoErr
    /\ calls < MaxCalls
    /\ st' = PatternEvaluate(st, a)
    /\ calls' = calls + 1
    /\ UNCHANGED <<q, op, db>>

NextPattern == \E a \in Ids : Evaluate(a)

SpecPattern == InitPattern /\ [][NextPattern]_vars

\* ================================================== operations/union.py
\* A result row is a Python dict: a sequence of [key, value] in insertion
\* order, its keys distinct.  The column names of the model in sorted
\* order:
ColumnOrder == <<"x", "y">>

RowKeys(row) == {row[i].key : i \in 1..Len(row)}

RowGet(row, key) == row[CHOOSE i \in 1..Len(row) : row[i].key = key].value

\* sorted(row.keys())
SortedKeys(row) == SelectSeq(ColumnOrder, LAMBDA c : c \in RowKeys(row))

\* json.dumps(row, sort_keys=True, default=str): the serialised form lists
\* the members by ascending key, whatever the insertion order.
JsonDumps(row) ==
    [i \in 1..Len(SortedKeys(row)) |->
        [key |-> SortedKeys(row)[i], value |-> RowGet(row, SortedKeys(row)[i])]]

\* any(json.dumps(existing, ...) == serialized for existing in combined)
IsDuplicate(combined, row) ==
    \E i \in 1..Len(combined) : JsonDumps(combined[i]) = JsonDumps(row)

\* Union._combine: the for loop over right, from its i-th row on.
RECURSIVE UnionCombineFrom(_, _, _)
UnionCombineFrom(combined, right, i) ==
    IF i > Len(right) THEN combined
    ELSE UnionCombineFrom(IF IsDuplicate(combined, right[i])
                          THEN combined ELSE Append(combined, right[i]),
                          right, i + 1)

\* Union._combine: combined starts as list(left).
UnionCombine(left, right) == UnionCombineFrom(left, right, 1)

\* UnionAll._combine with the two sides exchanged.
UnionAllCombine_reversed(left, right) == right \o left

\* UnionAll._combine
UnionAllCombine(left, right) == left \o right

\* Union.__init__ / UnionAll.__init__ and the setters of left and right:
\* a sub-pipeline is the columns of its RETURN and the rows it produces
\* when run.  left_results and right_results are the locals of the last
\* run.
NewUnion(kind, left, right) ==
    [kind |-> kind, results |-> <<>>, err |-> NoErr, initialized |-> FALSE,
     ran |-> FALSE, left |-> left, right |-> right,
     left_results |-> <<>>, right_results |-> <<>>]

\* Union.initialize
UnionInitialize(u) == [u EXCEPT !.results = <<>>, !.initialized = TRUE]

\* The validation of Union.run: only the first rows are compared, and only
\* when both sides have rows.
ColumnsDiffer(left_results, right_results) ==
    /\ Len(left_results) > 0
    /\ Len(right_results) > 0
    /\ SortedKeys(left_results[1]) # SortedKeys(right_results[1])

\* Union.run once the two sub-pipelines have run and left their results.
UnionValidateCombine(u, left_results, right_results) ==
    IF ColumnsDiffer(left_results, right_results)
    THEN [u EXCEPT !.err = ErrUnionColumns]
    ELSE [u EXCEPT !.results = IF u.kind = "union_all"
                               THEN UnionAllCombine(left_results, right_results)
                               ELSE UnionCombine(left_results, right_results)]

\* Union.run
UnionRun(u) ==
    [UnionValidateCombine(u, u.left.rows, u.right.rows) EXCEPT
        !.left_results = u.left.rows, !.right_results = u.right.rows,
        !.ran = TRUE, !.initialized = FALSE]

\* What a sub-pipeline ending in RETURN leaves: every row has the columns
\* of the RETURN, in its order.
Values == 1..2

Columns == {<<"x">>, <<"y">>, <<"x", "y">>, <<"y", "x">>}

RowsOf(cols) ==
    {[i \in 1..Len(cols) |-> [key |-> cols[i], value |-> v[i]]] :
        v \in [1..Len(cols) -> Values]}

Sides ==
    UNION {{[cols |-> cols, rows |-> rows] : rows \in SeqsUpTo(RowsOf(cols), MaxRows)} :
            cols \in Columns}

InitUnion ==
    /\ st = NewRelationship(<<>>, "right", 1, 1, <<>>, Ids)
    /\ calls = 0
    /\ q = NoQuery
    /\ op \in {NewUnion(k, L, R) : k \in {"union", "union_all"}, L \in Sides, R \in Sides}
    /\ db = NoDb

\* The statement is initialised before it is run.
UnionInitializeStep ==
    /\ op.err = NoErr
    /\ ~op.initialized
    /\ calls < MaxCalls
    /\ op' = UnionInitialize(op)
    /\ UNCHANGED <<st, calls, q, db>>

\* Union.run
UnionRunStep ==
    /\ op.err = NoErr
    /\ op.initialized
    /\ op' = UnionRun(op)
    /\ calls' = calls + 1
    /\ UNCHANGED <<st, q, db>>

NextUnion == UnionInitializeStep \/ UnionRunStep

SpecUnion == InitUnion /\ [][NextUnion]_vars

\* =============================================== operations/order_by.py
\* None
Null == 0

\* SortField: `name` is the variable the sort expression reads; ref tells
\* whether the expression is a lone Reference (to the returned column of
\* that name) or a larger expression.
SortField(name, ref, direction) == [name |-> name, ref |-> ref, direction |-> direction]

\* OrderBy.__init__
NewOrderBy(fields) == [fields |-> fields, sort_keys |-> <<>>]

\* OrderBy.initialize: the captured sort keys are dropped (the ORDER BY
\* attached to a RETURN has no next operation).
OrderByInitialize(o) == [o EXCEPT !.sort_keys = <<>>]

\* OrderBy.capture_sort_keys: the sort expressions are evaluated in the
\* scope of the current row.
CaptureSortKeys(o, scope) ==
    [o EXCEPT !.sort_keys =
        Append(@, [f \in 1..Len(o.fields) |-> scope[o.fields[f].name]])]

\* fallback_fields: the identifier of a lone Reference, "" for None.
FallbackField(field) == IF field.ref THEN field.name ELSE ""

\* dict.get
RecordGet(rec, name) == IF name \in DOMAIN rec THEN rec[name] ELSE Null

\* The operand of compare for record i and field f.
SortOperand(o, records, use_keys, i, f) ==
    IF use_keys THEN o.sort_keys[i][f]
    ELSE RecordGet(records[i], FallbackField(o.fields[f]))

\* cmp of two operands: None first, then <.
FieldCmp(a_val, b_val) ==
    IF a_val = Null /\ b_val = Null THEN 0
    ELSE IF a_val = Null THEN -1
    ELSE IF b_val = Null THEN 1
    ELSE IF a_val < b_val THEN -1
    ELSE IF a_val > b_val THEN 1
    ELSE 0

\* return -cmp if sf.direction == "desc" else cmp
Directed(cmp, direction) == IF direction = "desc" THEN 0 - cmp ELSE cmp

RECURSIVE Compare(_, _, _, _, _, _)

\* The end of one iteration of compare's loop over the fields.
CompareField(o, records, use_keys, ai, bi, f, cmp) ==
    IF cmp # 0 THEN Directed(cmp, o.fields[f].direction)
    ELSE Compare(o, records, use_keys, ai, bi, f + 1)

\* OrderBy.sort.compare, from field f on.
Compare(o, records, use_keys, ai, bi, f) ==
    IF f > Len(o.fields) THEN 0
    ELSE IF ~use_keys /\ FallbackField(o.fields[f]) = ""
         THEN Compare(o, records, use_keys, ai, bi, f + 1)
    ELSE CompareField(o, records, use_keys, ai, bi, f,
                      FieldCmp(SortOperand(o, records, use_keys, ai, f),
                               SortOperand(o, records, use_keys, bi, f)))

\* A sort that lets an index pass the equal ones before it.
StaysAhead_strict(cmp) == cmp < 0

\* list.sort is stable: an index stays behind every earlier index that
\* does not compare greater.
StaysAhead(cmp) == cmp <= 0

\* indices.sort(key=cmp_to_key(compare)) as a stable insertion of index i
\* into the sorted earlier indices, scanning from position p.
RECURSIVE InsertIndex(_, _, _, _, _, _)
InsertIndex(o, records, use_keys, sorted, i, p) ==
    IF p > Len(sorted) THEN Append(sorted, i)
    ELSE IF StaysAhead(Compare(o, records, use_keys, sorted[p], i, 1))
         THEN InsertIndex(o, records, use_keys, sorted, i, p + 1)
    ELSE SubSeq(sorted, 1, p - 1) \o <<i>> \o SubSeq(sorted, p, Len(sorted))

RECURSIVE SortIndices(_, _, _, _)
SortIndices(o, records, use_keys, n) ==
    IF n = 0 THEN <<>>
    ELSE InsertIndex(o, records, use_keys,
                     SortIndices(o, records, use_keys, n - 1), n, 1)

\* return [records[i] for i in indices]
PickRecords(records, indices) == [p \in 1..Len(indices) |-> records[indices[p]]]

\* OrderBy.sort
OrderBySort(o, records) ==
    PickRecords(records,
                SortIndices(o, records, Len(o.sort_keys) = Len(records), Len(records)))

\* ==================================================== operations/limit.py
\* Limit.__init__
NewLimit(n) == [count |-> 0, limit |-> n]

\* The limit test letting one more call through.
IsLimitReached_late(l) == l.count > l.limit

\* Limit.is_limit_reached
IsLimitReached(l) == l.count >= l.limit

\* Limit.increment
LimitIncrement(l) == [l EXCEPT !.count = @ + 1]

\* Limit.reset
LimitReset(l) == [l EXCEPT !.count = 0]

\* Limit.run: fwd tells whether next.run() was called.
LimitRun(l) ==
    IF IsLimitReached(l) THEN [l |-> l, fwd |-> FALSE]
    ELSE [l |-> LimitIncrement(l), fwd |-> TRUE]

\* ================================================ operations/return_op.py
\* Return.__init__ and the setters of limit and order_by.  emitted is the
\* history of the scopes whose WHERE held since the last initialize.
NewReturn(has_limit, n, has_order_by, fields) ==
    [kind |-> "return", results |-> <<>>,
     has_limit |-> has_limit, limit |-> NewLimit(n),
     has_order_by |-> has_order_by, order_by |-> NewOrderBy(fields),
     initialized |-> FALSE, inits |-> 0, emitted |-> <<>>]

\* The record Return.run builds from the projection x, id.
ProjectRecord(scope) == [x |-> scope.x, id |-> scope.id]

\* Return.run past its two early returns.
ReturnAccumulate(r, scope) ==
    [r EXCEPT !.results = Append(@, ProjectRecord(scope)),
              !.order_by = IF r.has_order_by THEN CaptureSortKeys(@, scope) ELSE @,
              !.limit = IF ~r.has_order_by /\ r.has_limit THEN LimitIncrement(@) ELSE @]

\* Return.run
ReturnRun(r, where, scope) ==
    IF ~where THEN r
    ELSE IF ~r.has_order_by /\ r.has_limit /\ IsLimitReached(r.limit) THEN r
    ELSE ReturnAccumulate(r, scope)

\* Return.initialize
ReturnInitialize(r) == [r EXCEPT !.results = <<>>]

\* Return.results: with ORDER BY and LIMIT the slice reads
\* self._limit.limit_value, an attribute Limit does not have, and the read
\* of results raises.
ReturnResults(r) ==
    IF ~r.has_order_by THEN [records |-> r.results, err |-> NoErr]
    ELSE IF r.has_limit THEN [records |-> <<>>, err |-> ErrAttribute]
    ELSE [records |-> OrderBySort(r.order_by, r.results), err |-> NoErr]

\* The ORDER BY lists of the model: x is the returned column, k a variable
\* that is not returned and is read through a larger expression.
FieldLists ==
    {<<SortField("x", TRUE, d)>> : d \in {"asc", "desc"}}
    \cup {<<SortField("k", FALSE, d)>> : d \in {"asc", "desc"}}
    \cup {<<SortField("k", FALSE, "asc"), SortField("x", TRUE, "desc")>>,
          <<SortField("k", FALSE, "desc"), SortField("x", TRUE, "asc")>>,
          <<SortField("x", TRUE, "asc"), SortField("k", FALSE, "desc")>>}

ReturnConfigs ==
    {NewReturn(hl, n, TRUE, fs) : hl \in BOOLEAN, n \in 1..MaxLimit, fs \in FieldLists}
    \cup {NewReturn(hl, n, FALSE, <<>>) : hl \in BOOLEAN, n \in 1..MaxLimit}

InitReturn ==
    /\ st = NewRelationship(<<>>, "right", 1, 1, <<>>, Ids)
    /\ calls = 0
    /\ q = NoQuery
    /\ op \in ReturnConfigs
    /\ db = NoDb

\* The pipeline is initialised before it is run (again).
ReturnInitializeStep ==
    /\ op.inits < MaxInits
    /\ op' = [ReturnInitialize(op) EXCEPT !.initialized = TRUE, !.inits = @ + 1,
                                          !.emitted = <<>>]
    /\ UNCHANGED <<st, calls, q, db>>

\* The operation before RETURN calls run() for one row: x and k are the
\* row's values, id numbers the rows that pass WHERE.
ReturnRunStep ==
    /\ op.initialized
    /\ calls < MaxRuns
    /\ \E where \in BOOLEAN, x \in Values, k \in {Null} \cup Values :
          op' = [ReturnRun(op, where, [x |-> x, k |-> k, id |-> Len(op.emitted) + 1])
                    EXCEPT !.emitted = IF where
                                       THEN Append(@, [x |-> x, k |-> k,
                                                       id |-> Len(op.emitted) + 1])
                                       ELSE @]
    /\ calls' = calls + 1
    /\ UNCHANGED <<st, q, db>>

\* initialize() called on the attached ORDER BY itself; Return.initialize
\* does not call it.
OrderByInitializeStep ==
    /\ op.has_order_by
    /\ op' = [op EXCEPT !.order_by = OrderByInitialize(@)]
    /\ UNCHANGED <<st, calls, q, db>>

NextReturn == ReturnInitializeStep \/ ReturnRunStep \/ OrderByInitializeStep

SpecReturn == InitReturn /\ [][NextReturn]_vars

\* ------------------------------------------------- the standalone LIMIT
\* log is the history of the calls: "fwd" for a run() that called
\* next.run(), "drop" for one that did not, "reset" for a reset().
InitLimit ==
    /\ st = NewRelationship(<<>>, "right", 1, 1, <<>>, Ids)
    /\ calls = 0
    /\ q = NoQuery
    /\ op \in {[kind |-> "limit", l |-> NewLimit(n), log |-> <<>>] : n \in 0..MaxLimit}
    /\ db = NoDb

\* Limit.run
LimitRunStep ==
    /\ Len(op.log) < MaxLog
    /\ op' = [op EXCEPT !.l = LimitRun(op.l).l,
                        !.log = Append(@, IF LimitRun(op.l).fwd THEN "fwd" ELSE "drop")]
    /\ UNCHANGED <<st, calls, q, db>>

\* Limit.reset
LimitResetStep ==
    /\ Len(op.log) < MaxLog
    /\ op' = [op EXCEPT !.l = LimitReset(op.l), !.log = Append(@, "reset")]
    /\ UNCHANGED <<st, calls, q, db>>

NextLimit == LimitRunStep \/ LimitResetStep

SpecLimit == InitLimit /\ [][NextLimit]_vars

\* ======================================================= graph/database.py
\* The labels and relationship types of the model.
Labels == {"A", "B"}
Types == {"T", "U"}

\* dict.get on a missing key
NoHandle == [name |-> "", serial |-> 0]

\* PhysicalNode(None, label) / PhysicalRelationship(): a new object each
\* time, told apart by the serial number of its creation.
NewPhysical(name, serial) == [name |-> name, serial |-> serial]

\* Database.add_node
AddNode(d, label, serial) ==
    [d EXCEPT !.nodes = (label :> NewPhysical(label, serial)) @@ @]

\* Database.get_node
GetNode(d, label) ==
    IF label \in DOMAIN d.nodes THEN d.nodes[label] ELSE NoHandle

\* Database.add_relationship
AddRelationship(d, type, serial) ==
    [d EXCEPT !.relationships = (type :> NewPhysical(type, serial)) @@ @]

\* Database.get_relationship
GetRelationship(d, type) ==
    IF type \in DOMAIN d.relationships THEN d.relationships[type] ELSE NoHandle

\* DeleteNode.run: Database defines no remove_node, the call raises and
\* the database is as before.
DeleteNodeRun(d, label) == [d |-> d, err |-> ErrAttribute]

\* DeleteRelationship.run: Database defines no remove_relationship.
DeleteRelationshipRun(d, type) == [d |-> d, err |-> ErrAttribute]

\* op.log is the history of the statements run against the database.
InitDatabase ==
    /\ st = NewRelationship(<<>>, "right", 1, 1, <<>>, Ids)
    /\ calls = 0
    /\ q = NoQuery
    /\ op = [kind |-> "db", log |-> <<>>]
    /\ db = NoDb

\* CREATE VIRTUAL (:label) AS { ... }
CreateVirtualNode(label) ==
    /\ Len(op.log) < MaxOps
    /\ db' = AddNode(db, label, Len(op.log) + 1)
    /\ op' = [op EXCEPT !.log = Append(@, [act |-> "create", key |-> label,
                                           serial |-> Len(op.log) + 1, err |-> NoErr])]
    /\ UNCHANGED <<st, calls, q>>

\* CREATE VIRTUAL ()-[:type]-() AS { ... }
CreateVirtualRelationship(type) ==
    /\ Len(op.log) < MaxOps
    /\ db' = AddRelationship(db, type, Len(op.log) + 1)
    /\ op' = [op EXCEPT !.log = Append(@, [act |-> "create", key |-> type,
                                           serial |-> Len(op.log) + 1, err |-> NoErr])]
    /\ UNCHANGED <<st, calls, q>>

\* DELETE VIRTUAL (:label)
DeleteVirtualNode(label) ==
    /\ Len(op.log) < MaxOps
    /\ db' = DeleteNodeRun(db, label).d
    /\ op' = [op EXCEPT !.log = Append(@, [act |-> "delete", key |-> label,
                                           serial |-> Len(op.log) + 1,
                                           err |-> DeleteNodeRun(db, label).err])]
    /\ UNCHANGED <<st, calls, q>>

\* DELETE VIRTUAL ()-[:type]-()
DeleteVirtualRelationship(type) ==
    /\ Len(op.log) < MaxOps
    /\ db' = DeleteRelationshipRun(db, type).d
    /\ op' = [op EXCEPT !.log = Append(@, [act |-> "delete", key |-> type,
                                           serial |-> Len(op.log) + 1,
                                           err |-> DeleteRelationshipRun(db, type).err])]
    /\ UNCHANGED <<st, calls, q>>

NextDatabase ==
    \/ \E label \in Labels : CreateVirtualNode(label)
    \/ \E type \in Types : CreateVirtualRelationship(type)
    \/ \E label \in Labels : DeleteVirtualNode(label)
    \/ \E type \in Types : DeleteVirtualRelationship(type)

SpecDatabase == InitDatabase /\ [][NextDatabase]_vars

\* ========================================== graph/physical_relationship.py
\* PhysicalRelationship.data: a Runner is built around the statement and
\* run on every call; ran tells whether the sub-pipeline was run. The
\* records are those of the statement, here one record that remembers the
\* handle it came from.
PhysicalData(h) ==
    [serial |-> h.serial, ran |-> TRUE, records |-> <<[origin |-> h.name]>>]

ErrNoPhysicals == "No physical relationships found for types"
ErrNoPhysical == "Physical relationship not found for type"

\* The Relationship of a pattern that names the given types, as
\* relationship.py defines it: it has the property type and no attribute
\* types.
ElementOf(types) == [type |-> types[1]]

\* element.types can be read
HasTypes(element) == "types" \in DOMAIN element

\* The handles of the registered types, in the order of the types;
\* unregistered types are skipped.
RECURSIVE RegisteredOf(_, _)
RegisteredOf(d, types) ==
    IF types = <<>> THEN <<>>
    ELSE IF Head(types) \in DOMAIN d.relationships
         THEN <<d.relationships[Head(types)]>> \o RegisteredOf(d, Tail(types))
         ELSE RegisteredOf(d, Tail(types))

\* Database.get_relationships: reading relationship.types raises on a
\* Relationship without that attribute.
GetRelationships(d, element) ==
    IF ~HasTypes(element) THEN [physicals |-> <<>>, err |-> ErrAttribute]
    ELSE [physicals |-> RegisteredOf(d, element.types), err |-> NoErr]

\* record tagged with _type
Tagged(record, type_name) == [origin |-> record.origin, type |-> type_name]

\* get_data, several types: the i-th handle's records get _type = types[i].
RECURSIVE TagAll(_, _, _)
TagAll(physicals, types, i) ==
    IF i > Len(physicals) THEN <<>>
    ELSE <<Tagged(PhysicalData(physicals[i]).records[1], types[i])>>
         \o TagAll(physicals, types, i + 1)

\* the data() calls made, one per handle
Fetches(physicals) ==
    [i \in 1..Len(physicals) |->
        [serial |-> PhysicalData(physicals[i]).serial,
         ran |-> PhysicalData(physicals[i]).ran]]

GetDataOred(physicals, types) ==
    IF physicals = <<>>
    THEN [err |-> ErrNoPhysicals, fetched |-> <<>>, records |-> <<>>]
    ELSE [err |-> NoErr, fetched |-> Fetches(physicals),
          records |-> TagAll(physicals, types, 1)]

GetDataSingle(relationship) ==
    IF relationship = NoHandle
    THEN [err |-> ErrNoPhysical, fetched |-> <<>>, records |-> <<>>]
    ELSE [err |-> NoErr, fetched |-> Fetches(<<relationship>>),
          records |-> PhysicalData(relationship).records]

\* Database.get_data for a Relationship: the first statement of the branch
\* reads element.types.
GetData(d, element) ==
    IF ~HasTypes(element)
    THEN [err |-> ErrAttribute, fetched |-> <<>>, records |-> <<>>]
    ELSE IF Len(element.types) > 1
    THEN GetDataOred(GetRelationships(d, element).physicals, element.types)
    ELSE GetDataSingle(GetRelationship(d, element.type))

\* -[:T]-, -[:U]-, -[:T|U]-, -[:U|T]-
TypeLists == {<<"T">>, <<"U">>, <<"T", "U">>, <<"U", "T">>}

InitPhysical ==
    /\ st = NewRelationship(<<>>, "right", 1, 1, <<>>, Ids)
    /\ calls = 0
    /\ q = NoQuery
    /\ op = [kind |-> "physical", log |-> <<>>, looking |-> FALSE, found |-> NoHandle]
    /\ db = NoDb

\* A pattern that names the given types fetches the data of its
\* relationship through Database.get_data.
FetchData(types) ==
    /\ Len(op.log) < MaxOps
    /\ op' = [op EXCEPT !.log =
                Append(@, [act |-> "data", key |-> types,
                           err |-> GetData(db, ElementOf(types)).err,
                           fetched |-> GetData(db, ElementOf(types)).fetched,
                           records |-> GetData(db, ElementOf(types)).records])]
    /\ UNCHANGED <<st, calls, q, db>>

\* found = db.get_relationship(relationship): a task looks the handle of
\* the type up, None (NoHandle) when the type is not registered.
HandleLookup(type) ==
    /\ Len(op.log) < MaxOps
    /\ ~op.looking
    /\ op' = [op EXCEPT !.looking = TRUE, !.found = GetRelationship(db, type)]
    /\ UNCHANGED <<st, calls, q, db>>

\* await found.data() of the handle looked up before, whatever has been
\* registered since; on None the attribute read raises.
HandleDataOf(found) ==
    IF found = NoHandle
    THEN [err |-> ErrAttribute, fetched |-> <<>>, records |-> <<>>]
    ELSE [err |-> NoErr, fetched |-> Fetches(<<found>>),
          records |-> PhysicalData(found).records]

HandleData ==
    /\ op.looking
    /\ op' = [op EXCEPT !.looking = FALSE, !.found = NoHandle,
                        !.log = Append(@, [act |-> "handle", key |-> <<op.found.name>>,
                                           err |-> HandleDataOf(op.found).err,
                                           fetched |-> HandleDataOf(op.found).fetched,
                                           records |-> HandleDataOf(op.found).records])]
    /\ UNCHANGED <<st, calls, q, db>>

NextPhysical ==
    \/ \E type \in Types : CreateVirtualRelationship(type)
    \/ \E types \in TypeLists : FetchData(types)
    \/ \E type \in Types : HandleLookup(type)
    \/ HandleData

SpecPhysical == InitPhysical /\ [][NextPhysical]_vars

\* ================================= graph/data.py, graph/relationship_data.py
\* A RelationshipData object under the calls of its public interface.
\* op.d is the object, op.direction the direction its relationship finds
\* with, op.log the calls since construction or the last reset(), each
\* with what it returned: ok for find / next, and for current the place at
\* of the returned record (0 for None).
DataRecords == SeqsUpTo({Edge(l, r) : l \in Values, r \in Values}, MaxRecords)

Levels == 0..1

InitData ==
    /\ st = NewRelationship(<<>>, "right", 1, 1, <<>>, Ids)
    /\ calls = 0
    /\ q = NoQuery
    /\ \E records \in DataRecords, direction \in {"left", "right"} :
         op = [kind |-> "data", d |-> NewRelationshipData(records),
               direction |-> direction, log |-> <<>>]
    /\ db = NoDb

Called(call, key, level, name, ok, at, err) ==
    [call |-> call, key |-> key, level |-> level, name |-> name,
     ok |-> ok, at |-> at, err |-> err]

DataFindStep(id, hop) ==
    /\ op.kind = "data"
    /\ Len(op.log) < MaxSteps
    /\ op' = [op EXCEPT
                !.d = RelationshipDataFind(op.d, id, hop, op.direction).d,
                !.log = Append(@, Called("find", id, hop,
                                         IF op.direction = "left" THEN "right_id" ELSE "left_id",
                                         RelationshipDataFind(op.d, id, hop, op.direction).ok,
                                         RelationshipDataFind(op.d, id, hop, op.direction).d
                                             .layers[hop].current + 1,
                                         NoErr))]
    /\ UNCHANGED <<st, calls, q, db>>

DataNextStep(level) ==
    /\ op.kind = "data"
    /\ Len(op.log) < MaxSteps
    /\ op' = [op EXCEPT
                !.d = DataNext(op.d, level).d,
                !.log = Append(@, Called("next", 0, level, "", DataNext(op.d, level).ok,
                                         DataNext(op.d, level).d.layers[level].current + 1,
                                         NoErr))]
    /\ UNCHANGED <<st, calls, q, db>>

DataCurrentStep(level) ==
    /\ op.kind = "data"
    /\ Len(op.log) < MaxSteps
    /\ op' = [op EXCEPT
                !.d = DataCurrent(op.d, level).d,
                !.log = Append(@, Called("current", 0, level, "",
                                         DataCurrent(op.d, level).at # 0,
                                         DataCurrent(op.d, level).at,
                                         DataCurrent(op.d, level).err))]
    /\ UNCHANGED <<st, calls, q, db>>

DataResetStep ==
    /\ op.kind = "data"
    /\ op.log # <<>>
    /\ op' = [op EXCEPT !.d = DataReset(op.d), !.log = <<>>]
    /\ UNCHANGED <<st, calls, q, db>>

NextData ==
    \/ \E id \in Values, hop \in Levels : DataFindStep(id, hop)
    \/ \E level \in Levels : DataNextStep(level)
    \/ \E level \in Levels : DataCurrentStep(level)
    \/ DataResetStep

SpecData == InitData /\ [][NextData]_vars

\* ================================ graph/pattern_expression.py, add_element
\* The parser hands the elements of a pattern expression to add_element
\* one by one.  An element is a NodeReference to a bound variable ("ref"),
\* a node ("node") or a relationship ("rel").
ErrMustStart == "PatternExpression must start with a NodeReference"
Element(kind, name) == [kind |-> kind, name |-> name]

NodeElements ==
    {Element("ref", v) : v \in {"a", "b"}} \cup {Element("node", l) : l \in Labels}

RelElements == {Element("rel", t) : t \in Types}

\* (n), (n)-[r]-(n), ... : nodes and relationships alternate
RECURSIVE ChainsOf(_)
ChainsOf(n) ==
    IF n = 1 THEN {<<e>> : e \in NodeElements}
    ELSE {c \o <<r, e>> : c \in ChainsOf(n - 2), r \in RelElements, e \in NodeElements}

PatternChains == UNION {ChainsOf(n) : n \in {m \in 1..MaxChain : m % 2 = 1}}

\* Pattern.add_element
PatternAddElement(chain, element) == Append(chain, element)

\* PatternExpression.add_element
ExpressionAddElement(chain, element) ==
    IF Len(chain) = 0 /\ element.kind # "ref"
    THEN [chain |-> chain, err |-> ErrMustStart]
    ELSE [chain |-> PatternAddElement(chain, element), err |-> NoErr]

InitExpression ==
    /\ st = NewRelationship(<<>>, "right", 1, 1, <<>>, Ids)
    /\ calls = 0
    /\ q = NoQuery
    /\ \E input \in PatternChains :
         op = [kind |-> "expression", input |-> input, chain |-> <<>>, err |-> NoErr]
    /\ db = NoDb

\* the parser adds the next element of the pattern expression it reads
AddElement ==
    /\ op.kind = "expression"
    /\ op.err = NoErr
    /\ Len(op.chain) < Len(op.input)
    /\ op' = [op EXCEPT
                !.chain = ExpressionAddElement(op.chain, op.input[Len(op.chain) + 1]).chain,
                !.err = ExpressionAddElement(op.chain, op.input[Len(op.chain) + 1]).err]
    /\ UNCHANGED <<st, calls, q, db>>

NextExpression == AddElement

SpecExpression == InitExpression /\ [][NextExpression]_vars

\* ================================================= parsing/parser_state.py
\* The parser reads the operations of a statement one by one and counts
\* the RETURNs of the pipeline in its ParserState.  A statement is the
\* sequence of its operations' keywords; UNION separates two pipelines.
ErrOnlyOneReturn == "Only one RETURN statement is allowed"

\* ParserState.__init__
NewParserState == [returns |-> 0]

\* ParserState.increment_returns
IncrementReturns_none(ps) == ps

IncrementReturns(ps) == [ps EXCEPT !.returns = @ + 1]

Keywords == {"with", "return", "union"}

Statements == SeqsUpTo(Keywords, MaxTokens) \ {<<>>}

\* One operation of a pipeline: a RETURN is counted, and nothing but the
\* end of the pipeline may follow a RETURN.
ParseOperation(ps, keyword) ==
    IF keyword = "return"
    THEN [ps |-> IncrementReturns(ps),
          err |-> IF IncrementReturns(ps).returns > 1 THEN ErrOnlyOneReturn ELSE NoErr]
    ELSE [ps |-> ps, err |-> IF ps.returns > 0 THEN ErrOnlyOneReturn ELSE NoErr]

\* op.ps is the parser state of the pipeline being read, op.counts the
\* RETURN counts of the pipelines read to their end.
InitParser ==
    /\ st = NewRelationship(<<>>, "right", 1, 1, <<>>, Ids)
    /\ calls = 0
    /\ q = NoQuery
    /\ \E input \in Statements :
         op = [kind |-> "parser", input |-> input, pos |-> 0, ps |-> NewParserState,
               counts |-> <<>>, err |-> NoErr, done |-> FALSE]
    /\ db = NoDb

ParserReading == op.kind = "parser" /\ op.err = NoErr /\ ~op.done

\* an operation of the current pipeline
ParseOperationStep ==
    /\ ParserReading
    /\ op.pos < Len(op.input)
    /\ op.input[op.pos + 1] # "union"
    /\ op' = [op EXCEPT !.pos = @ + 1,
                        !.ps = ParseOperation(op.ps, op.input[op.pos + 1]).ps,
                        !.err = ParseOperation(op.ps, op.input[op.pos + 1]).err]
    /\ UNCHANGED <<st, calls, q, db>>

\* UNION ends the pipeline; the right side is read with a parser state of
\* its own.
ParseUnionStep ==
    /\ ParserReading
    /\ op.pos < Len(op.input)
    /\ op.input[op.pos + 1] = "union"
    /\ op' = [op EXCEPT !.pos = @ + 1,
                        !.counts = Append(@, op.ps.returns),
                        !.ps = NewParserState]
    /\ UNCHANGED <<st, calls, q, db>>

\* end of the statement
ParseEndStep ==
    /\ ParserReading
    /\ op.pos = Len(op.input)
    /\ op' = [op EXCEPT !.counts = Append(@, op.ps.returns), !.done = TRUE]
    /\ UNCHANGED <<st, calls, q, db>>

NextParser ==
    \/ ParseOperationStep
    \/ ParseUnionStep
    \/ ParseEndStep

SpecParser == InitParser /\ [][NextParser]_vars

\* =================================================================== claims
\* What the formulas below read off a state: the last call's source is
\* st.aVal in Spec, its emissions are st.out.
Rec(p) == st.data.records[p]

RecordPlaces == 1..Len(st.data.records)

Multi == HopsMulti(st.hmin, st.hmax)

\* The trail follows the edges rightwards from src.
RightChained(src, trail) ==
    /\ Len(trail) > 0 => Rec(trail[1]).left_id = src
    /\ \A i \in 1..(Len(trail) - 1) : Rec(trail[i]).right_id = Rec(trail[i + 1]).left_id

RightEnd(src, trail) ==
    IF Len(trail) = 0 THEN src ELSE Rec(trail[Len(trail)]).right_id

\* The node ids along the trail, the source first.
NodesAlong(src, trail) ==
    <<src>> \o [i \in 1..Len(trail) |-> Rec(trail[i]).right_id]

Revisits(src, trail) ==
    LET ns == NodesAlong(src, trail)
    IN \E i, j \in 1..Len(ns) : i < j /\ ns[i] = ns[j]

\* The acyclic rightward paths from src within the hop bounds, in
\* depth-first pre-order with sibling edges in record order.
RECURSIVE PreOrder(_, _, _, _)
PreOrder(node, visited, trail, p) ==
    IF p > Len(st.data.records) THEN <<>>
    ELSE LET depth == Len(trail)
             rest == PreOrder(node, visited, trail, p + 1)
         IN IF Rec(p).left_id = node /\ Rec(p).right_id \notin visited
            THEN LET t == Append(trail, p)
                     here == IF depth + 1 >= st.hmin THEN <<t>> ELSE <<>>
                     below == IF depth + 1 < st.hmax
                              THEN PreOrder(Rec(p).right_id, visited \cup {Rec(p).right_id}, t, 1)
                              ELSE <<>>
                 IN here \o below \o rest
            ELSE rest

ExpectedTrails(src) ==
    (IF st.hmin = 0 THEN <<<<>>>> ELSE <<>>) \o PreOrder(src, {src}, <<>>, 1)

EmittedTrails == [i \in 1..Len(st.out) |-> st.out[i].trail]

Plain == st.properties = <<>> /\ st.nodes = Ids

\* C1: a variable-length traversal fires the continuation exactly once for
\* each acyclic path from the start node whose length is within the hop
\* bounds.
C1_OncePerAcyclicPath ==
    (calls > 0 /\ st.direction = "right" /\ Multi /\ Plain) =>
        LET expected == ExpectedTrails(st.aVal)
        IN /\ \A k \in 1..Len(expected) :
                Cardinality({i \in 1..Len(st.out) : st.out[i].trail = expected[k]}) = 1
           /\ \A i \in 1..Len(st.out) :
                \E k \in 1..Len(expected) : expected[k] = st.out[i].trail

\* C2: a variable-length traversal emits no path that revisits a node id and
\* skips such a step without raising; a fixed-length traversal that would
\* revisit a node raises "Circular relationship detected".
C2_CycleDetection ==
    (calls > 0 /\ st.direction = "right" /\ Plain) =>
        /\ Multi => /\ st.err # ErrCircular
                    /\ \A i \in 1..Len(st.out) : ~Revisits(st.out[i].a, st.out[i].trail)
        /\ (~Multi /\ \E p \in RecordPlaces : Rec(p).left_id = st.aVal /\ Rec(p).right_id = st.aVal)
              => st.err = ErrCircular

\* C3: with minimum hop count 0 a variable-length find(id, 0) fires exactly
\* once with the end node bound to the source and no edge on the match
\* stack; with minimum hop count >= 1 no zero-length match is emitted.
C3_ZeroHop ==
    (calls > 0 /\ st.aVal \in st.nodes) =>
        LET zero == {i \in 1..Len(st.out) : st.out[i].trail = <<>>}
        IN /\ (Multi /\ st.hmin = 0) =>
                /\ Cardinality(zero) = 1
                /\ \A i \in zero : st.out[i].b = st.aVal /\ st.out[i].stack = <<>>
           /\ st.hmin >= 1 => zero = {}

\* C4: every emitted match traversed at least min and at most max edges
\* from the source.
C4_HopBounds ==
    \A i \in 1..Len(st.out) :
        st.hmin <= Len(st.out[i].trail) /\ Len(st.out[i].trail) <= st.hmax

C4_Witness ==
    /\ calls > 0
    /\ st.hmin = 2
    /\ \E i \in 1..Len(st.out) : Len(st.out[i].trail) = 2

\* C5: with direction right find(id) enumerates exactly the records whose
\* left_id is id and continues at their right_id; with direction left
\* exactly those whose right_id is id, continuing at their left_id.
C5_DirectionEndpoints ==
    (calls > 0 /\ Plain /\ st.hmax = 1 /\ st.direction \in {"right", "left"}) =>
        LET from == IF st.direction = "right" THEN "left_id" ELSE "right_id"
            to == IF st.direction = "right" THEN "right_id" ELSE "left_id"
            places == SelectSeq([p \in RecordPlaces |-> p], LAMBDA p : Rec(p)[from] = st.aVal)
        IN /\ EmittedTrails = [k \in 1..Len(places) |-> <<places[k]>>]
           /\ \A i \in 1..Len(st.out) :
                Len(st.out[i].trail) = 1 => st.out[i].b = Rec(st.out[i].trail[1])[to]

\* C6 (as stated): with direction both an edge is matched from either of
\* its endpoints, so a record whose right_id is the source is followed to
\* its left_id.
C6_EitherEndpoint ==
    (calls > 0 /\ st.direction = "both" /\ Plain /\ st.hmin <= 1) =>
        \A p \in RecordPlaces :
            Rec(p).right_id = st.aVal =>
                \E i \in 1..Len(st.out) :
                    st.out[i].trail = <<p>> /\ st.out[i].b = Rec(p).left_id

\* C6 (amended): with direction both find(id) tries edges as right only:
\* every emitted path leaves the source through left_id = id and follows
\* right_id at each hop, and the end node is bound to the last right_id.
C6_BothIsRight ==
    st.direction = "both" =>
        \A i \in 1..Len(st.out) :
            /\ RightChained(st.out[i].a, st.out[i].trail)
            /\ st.out[i].b = RightEnd(st.out[i].a, st.out[i].trail)

C6_Witness ==
    /\ calls > 0
    /\ st.direction = "both"
    /\ \E i \in 1..Len(st.out) :
          /\ Len(st.out[i].trail) >= 1
          /\ Rec(st.out[i].trail[1]).left_id # Rec(st.out[i].trail[1]).right_id

\* C7: matches are emitted in enumeration order: the zero-hop match first,
\* every path before its extensions, sibling edges in record order (the
\* chain 1->2->3 under *1.. emits the ends 2, 3 for source 1).
C7_EnumerationOrder ==
    (calls > 0 /\ st.direction = "right" /\ Multi /\ Plain) =>
        EmittedTrails = ExpectedTrails(st.aVal)

\* C8: a record is matched only if it has every constraint column with the
\* constraint's value; a record lacking a constraint column raises
\* "Relationship does not have property".
C8_PropertyConstraints ==
    calls > 0 =>
        /\ \A i \in 1..Len(st.out) : \A j \in 1..Len(st.out[i].trail) :
              \A c \in 1..Len(st.properties) :
                  /\ st.properties[c].key \in DOMAIN Rec(st.out[i].trail[j])
                  /\ Rec(st.out[i].trail[j])[st.properties[c].key] = st.properties[c].value
        /\ (st.hmin <= 1 /\ st.err = NoErr) =>
              \A p \in RecordPlaces : \A c \in 1..Len(st.properties) :
                  Rec(p).left_id = st.aVal => st.properties[c].key \in DOMAIN Rec(p)

\* C9: one invocation of Match.run: with k >= 1 bindings the next operation
\* runs k times and no null row is added; with no binding an OPTIONAL MATCH
\* runs it once with every pattern variable null, a plain MATCH not at all;
\* this holds for every invocation, whatever the earlier ones found.
C9_MatchRunOutcome ==
    (calls > 0 /\ st.err = NoErr) =>
        LET bindings == {i \in 1..Len(st.out) : ~st.out[i].null}
            nulls == {i \in 1..Len(st.out) : st.out[i].null}
        IN /\ Cardinality(bindings) >= 1 => nulls = {}
           /\ (bindings = {} /\ q.optional) =>
                /\ Len(st.out) = 1
                /\ \A i \in nulls :
                      /\ q.kind # "node" => st.out[i].b = 0
                      /\ q.kind # "ref" => st.out[i].a = 0
                      /\ st.out[i].rtag = "none"
           /\ (bindings = {} /\ ~q.optional) => Len(st.out) = 0

\* C10: MATCH (a) OPTIONAL MATCH (a)-[:T]->(b) emits exactly as many rows as
\* MATCH (a) alone, b being null in the rows of the nodes a without an
\* outgoing T edge.
C10_OptionalTotality ==
    (q.kind = "ref" /\ q.optional /\ Plain /\ st.hmax = 1) =>
        /\ st.err = NoErr
        /\ q.pos = Len(q.nodeSeq) =>
              /\ Len(q.rows) = Len(q.nodeSeq)
              /\ \A i \in 1..Len(q.rows) :
                    q.rows[i].b = 0 <=> ~\E p \in RecordPlaces : Rec(p).left_id = q.rows[i].a
\* C11: every evaluation of a pattern expression yields true iff a binding
\* of its pattern exists for the current value of the referenced node, and
\* false otherwise, whatever an earlier evaluation yielded.
C11_PresenceTest ==
    (calls > 0 /\ Plain /\ st.direction = "right" /\ st.hmin = 1 /\ st.hmax = 1) =>
        /\ st.err = NoErr
        /\ PatternValue(st) <=> \E p \in RecordPlaces : Rec(p).left_id = st.aVal
\* The distinct rows of a list, by their key-sorted JSON form.
DistinctForms(rows) == {JsonDumps(rows[i]) : i \in 1..Len(rows)}

\* Union.run has returned or raised and the results are those it left.
UnionRan == op.ran /\ ~op.initialized

UnionDone == UnionRan /\ op.err = NoErr

ColumnSet(cols) == {cols[i] : i \in 1..Len(cols)}

\* C12: UNION of L and R holds every distinct row (by key-sorted JSON form)
\* of L and R exactly once, so its length is the number of distinct rows.
C12_UnionDistinct ==
    (UnionDone /\ op.kind = "union") =>
        /\ \A f \in DistinctForms(op.left_results \o op.right_results) :
              Cardinality({i \in 1..Len(op.results) : JsonDumps(op.results[i]) = f}) = 1
        /\ Len(op.results) = Cardinality(DistinctForms(op.left_results \o op.right_results))

\* C13: UNION ALL of L and R is the sequence L followed by R: |L|+|R| rows,
\* the left rows first, each side in its own order.
C13_UnionAllConcat ==
    (UnionDone /\ op.kind = "union_all") =>
        /\ Len(op.results) = Len(op.left_results) + Len(op.right_results)
        /\ \A i \in 1..Len(op.left_results) : op.results[i] = op.left_results[i]
        /\ \A j \in 1..Len(op.right_results) :
              op.results[Len(op.left_results) + j] = op.right_results[j]

C13_Witness ==
    /\ UnionDone
    /\ op.kind = "union_all"
    /\ Len(op.left_results) = 2
    /\ Len(op.right_results) = 1
    /\ op.left_results[1] # op.left_results[2]
    /\ op.right_results[1] = op.left_results[1]

\* C14: sub-queries projecting different column-name sets make run() fail
\* with the column-names error and leave the results empty, however many
\* rows either side produced.
C14_ColumnMismatch ==
    (UnionRan /\ ColumnSet(op.left.cols) # ColumnSet(op.right.cols)) =>
        /\ op.err = ErrUnionColumns
        /\ op.results = <<>>
\* What the formulas on RETURN read off a state: the rows that passed WHERE
\* since the last initialize, their records and their sort-key tuples in
\* the rows' own scopes.
IsReturn == op.kind = "return" /\ op.initialized

EmittedRecords == [i \in 1..Len(op.emitted) |-> ProjectRecord(op.emitted[i])]

KeysOf(i) == [f \in 1..Len(op.order_by.fields) |-> op.emitted[i][op.order_by.fields[f].name]]

\* Within a field null is smaller than every other value.
NullLess(a, b) == (a = Null /\ b # Null) \/ (a # Null /\ b # Null /\ a < b)

\* The first differing field decides, a desc field the other way round.
KeyBefore(ka, kb) ==
    \E f \in 1..Len(op.order_by.fields) :
        /\ ka[f] # kb[f]
        /\ \A g \in 1..(f - 1) : ka[g] = kb[g]
        /\ IF op.order_by.fields[f].direction = "desc"
           THEN NullLess(kb[f], ka[f]) ELSE NullLess(ka[f], kb[f])

\* The number of rows that come before row i in the stable order by keys.
RankOf(i) ==
    Cardinality({j \in 1..Len(op.emitted) :
                    \/ KeyBefore(KeysOf(j), KeysOf(i))
                    \/ (KeysOf(j) = KeysOf(i) /\ j < i)})

ExpectedOrder ==
    [p \in 1..Len(op.emitted) |->
        EmittedRecords[CHOOSE i \in 1..Len(op.emitted) : RankOf(i) = p - 1]]

SortedResults == OrderBySort(op.order_by, op.results)

\* the first n of a list
Slice(result, n) == SubSeq(result, 1, IF n < Len(result) THEN n ELSE Len(result))

\* C15: with ORDER BY and LIMIT n no record is dropped while accumulating,
\* and results is the first n records of the whole accumulated list in
\* sorted order (all of them when there are fewer).
C15_LimitAfterSort ==
    (IsReturn /\ op.has_order_by /\ op.has_limit) =>
        /\ op.results = EmittedRecords
        /\ ReturnResults(op).err = NoErr
        /\ ReturnResults(op).records = Slice(ExpectedOrder, op.limit.limit)

\* C16: ORDER BY is a stable sort: records with equal sort-key tuples keep
\* the order in which they were accumulated, and the sorted list is a
\* permutation of the accumulated records.
C16_StableSort ==
    (IsReturn /\ op.has_order_by) =>
        /\ Len(SortedResults) = Len(op.results)
        /\ \A i \in 1..Len(op.results) :
              Cardinality({p \in 1..Len(SortedResults) : SortedResults[p] = op.results[i]}) = 1
        /\ \A p, r \in 1..Len(SortedResults) :
              (p < r /\ KeysOf(SortedResults[p].id) = KeysOf(SortedResults[r].id))
                  => SortedResults[p].id < SortedResults[r].id

C16_Witness ==
    /\ IsReturn
    /\ op.has_order_by
    /\ Len(op.results) = 3
    /\ KeysOf(1) = KeysOf(2)
    /\ op.results[1].x # op.results[2].x
    /\ KeyBefore(KeysOf(3), KeysOf(1))
    /\ SortedResults[1] = op.results[3]

\* C17: the sorted records are ordered by their sort keys, compared field
\* by field in the written order, the first differing field deciding, null
\* below every value, a desc field inverted.
C17_FieldByField ==
    (IsReturn /\ op.has_order_by) =>
        \A p, r \in 1..Len(SortedResults) :
            p < r => ~KeyBefore(KeysOf(SortedResults[r].id), KeysOf(SortedResults[p].id))

\* C18: with LIMIT n and no ORDER BY results holds the first min(n, m)
\* records, in emission order, of the m calls since initialize whose WHERE
\* held, and never more than n.
C18_LimitWithoutOrder ==
    (IsReturn /\ op.has_limit /\ ~op.has_order_by) =>
        /\ ReturnResults(op).err = NoErr
        /\ ReturnResults(op).records = Slice(EmittedRecords, op.limit.limit)
        /\ Len(ReturnResults(op).records) <= op.limit.limit
\* The number of run() calls among log[1..i] since the last reset before i.
RunsSinceReset(i) ==
    Cardinality({j \in 1..i : /\ op.log[j] # "reset"
                              /\ \A g \in j..i : op.log[g] # "reset"})

\* C19: between two resets a standalone LIMIT n forwards exactly the first
\* n run() calls to the next operation and none of the later ones, and its
\* counter never exceeds n.
C19_LimitGate ==
    op.kind = "limit" =>
        /\ op.l.count <= op.l.limit
        /\ \A i \in 1..Len(op.log) :
              op.log[i] # "reset" =>
                  (op.log[i] = "fwd" <=> RunsSinceReset(i) <= op.l.limit)

C19_Witness ==
    /\ op.kind = "limit"
    /\ op.l.limit = 2
    /\ op.log = <<"fwd", "fwd", "drop", "reset", "fwd">>
\* The handle the history gives a label or type: that of its most recent
\* CREATE VIRTUAL unless a DELETE of it came later.
LastOf(key) ==
    IF \E i \in 1..Len(op.log) : op.log[i].key = key
    THEN op.log[CHOOSE i \in 1..Len(op.log) :
                    /\ op.log[i].key = key
                    /\ \A j \in (i + 1)..Len(op.log) : op.log[j].key # key]
    ELSE [act |-> "delete", key |-> key, serial |-> 0, err |-> NoErr]

RegisteredHandle(key) ==
    IF LastOf(key).act = "create" THEN NewPhysical(key, LastOf(key).serial) ELSE NoHandle

\* C20: after any sequence of CREATE VIRTUAL and DELETE a lookup returns
\* the handle of the most recent CREATE VIRTUAL of that label or type if
\* no DELETE of it came later and nothing otherwise; the handles of the
\* other labels and types are not touched.
C20_DatabaseRegistry ==
    op.kind = "db" =>
        /\ \A label \in Labels : GetNode(db, label) = RegisteredHandle(label)
        /\ \A type \in Types : GetRelationship(db, type) = RegisteredHandle(type)
\* C21: data() of a physical handle runs the defining sub-pipeline on the
\* first call only; every later call on the same handle returns the
\* memoised records without running it, until CREATE VIRTUAL redefines the
\* handle.
IsFetch(e) == e.act \in {"data", "handle"}

FetchedBefore(i, serial) ==
    \E j \in 1..(i - 1) :
        /\ IsFetch(op.log[j])
        /\ \E k \in 1..Len(op.log[j].fetched) : op.log[j].fetched[k].serial = serial

C21_DataMemoised ==
    op.kind = "physical" =>
        \A i \in 1..Len(op.log) :
            IsFetch(op.log[i]) =>
                \A k \in 1..Len(op.log[i].fetched) :
                    op.log[i].fetched[k].ran
                        <=> ~FetchedBefore(i, op.log[i].fetched[k].serial)

\* C30: for a pattern with several OR-ed types get_data returns the
\* records of the registered types among them, each tagged with the type
\* of the handle it was fetched from, also when some of the listed types
\* are not registered.
RegisteredAt(i) ==
    {t \in Types : \E j \in 1..(i - 1) : op.log[j].act = "create" /\ op.log[j].key = t}

C30_TypeTag ==
    op.kind = "physical" =>
        \A i \in 1..Len(op.log) :
            (op.log[i].act = "data" /\ Len(op.log[i].key) > 1) =>
                /\ \A k \in 1..Len(op.log[i].records) :
                      op.log[i].records[k].type = op.log[i].records[k].origin
                /\ {op.log[i].records[k].origin : k \in 1..Len(op.log[i].records)}
                      = RegisteredAt(i) \cap {op.log[i].key[n] : n \in 1..Len(op.log[i].key)}

\* C22: after a reset, the successive find(key) calls on one level and
\* index stop on exactly the records whose indexed column equals key, each
\* once and in record-list order, returning true, and return false on
\* every later call; a key no record holds gives false; the enumerations
\* of different keys do not disturb one another.
IsData == op.kind = "data"

\* the places of the records whose column name holds key
Holding(name, key) ==
    {p \in 1..Len(op.d.records) : op.d.records[p][name] = key}

SameFind(e, f) ==
    /\ e.call = "find" /\ f.call = "find"
    /\ e.key = f.key /\ e.level = f.level /\ e.name = f.name

\* how many find calls of the same key, level and index came before call i
FindsBefore(i) ==
    Cardinality({j \in 1..(i - 1) : SameFind(op.log[j], op.log[i])})

FindAsEnumerated(i) ==
    LET e == op.log[i]
        held == Holding(e.name, e.key)
    IN IF FindsBefore(i) < Cardinality(held)
       THEN /\ e.ok
            /\ e.at \in held
            /\ Cardinality({p \in held : p < e.at}) = FindsBefore(i)
       ELSE ~e.ok

C22_FindEnumerates ==
    IsData =>
        \A i \in 1..Len(op.log) : op.log[i].call = "find" => FindAsEnumerated(i)

\* a key held by two records has stopped on the first and then on the
\* second, with a find of another key of the level and index in between
C22_Witness ==
    /\ IsData
    /\ Len(op.log) = 3
    /\ SameFind(op.log[1], op.log[3])
    /\ op.log[1].ok /\ op.log[3].ok /\ op.log[1].at < op.log[3].at
    /\ op.log[2].call = "find"
    /\ op.log[2].key # op.log[1].key /\ op.log[2].level = op.log[1].level
    /\ op.log[2].name = op.log[1].name

\* C26: next(level) and find(key, level) change only the cursor and the
\* index positions of that level; those of every other level stay as they
\* were, so an enumeration at hop h is not disturbed by one at hop h + 1.
OtherLevelsKept ==
    (IsData /\ Len(op'.log) = Len(op.log) + 1 /\ op'.log[Len(op'.log)].call \in {"find", "next"})
        => \A l \in DOMAIN op.d.layers :
              l # op'.log[Len(op'.log)].level => op'.d.layers[l] = op.d.layers[l]

C26_LevelFrame == [][OtherLevelsKept]_vars

\* level 0 is in the middle of an enumeration and a find on level 1 has
\* just succeeded for the same key and index
C26_Witness ==
    /\ IsData
    /\ Len(op.log) = 3
    /\ op.log[1].call = "find" /\ op.log[1].level = 0 /\ op.log[1].ok
    /\ op.log[2].call = "next" /\ op.log[2].level = 1 /\ op.log[2].ok
    /\ SameFind(op.log[1], [op.log[3] EXCEPT !.level = 0])
    /\ op.log[3].level = 1 /\ op.log[3].ok
    /\ op.d.layers[0].indexes[op.log[1].name][op.log[1].key] = 0
    /\ op.d.layers[0].current = op.log[1].at - 1

\* C28: current(level) returns a record only while a successful next() or
\* find() has put the level's cursor on a record; before the first
\* successful next() / find() after construction or reset(), and after
\* exhaustion or a failed find(), it returns None.
Positioning(i) ==
    {j \in 1..(i - 1) : /\ op.log[j].level = op.log[i].level
                        /\ \/ op.log[j].call = "find"
                           \/ op.log[j].call = "next" /\ op.log[j].ok}

\* the level's cursor is on a record when call i is made: the last find or
\* successful next of the level succeeded (a next that fails at the last
\* record leaves the cursor on it)
PositionedBefore(i) ==
    /\ Positioning(i) # {}
    /\ op.log[CHOOSE m \in Positioning(i) : \A n \in Positioning(i) : n <= m].ok

C28_CurrentNone ==
    IsData =>
        \A i \in 1..Len(op.log) :
            op.log[i].call = "current" =>
                /\ op.log[i].err = NoErr
                /\ op.log[i].at # 0 <=> PositionedBefore(i)

\* C24: a pattern expression is accepted iff its chain contains a
\* NodeReference to a bound variable, at any position of the chain; one
\* without any NodeReference is rejected with "PatternExpression must
\* contain at least one NodeReference".
ErrMustContain == "PatternExpression must contain at least one NodeReference"

HasNodeReference(chain) == \E i \in 1..Len(chain) : chain[i].kind = "ref"

ExpressionParsed == op.err # NoErr \/ op.chain = op.input

C24_NodeReferenceAnywhere ==
    (op.kind = "expression" /\ ExpressionParsed) =>
        /\ op.err = NoErr <=> HasNodeReference(op.input)
        /\ op.err # NoErr => op.err = ErrMustContain

\* C23: a statement with two RETURN operations in one pipeline fails to
\* parse with "Only one RETURN statement is allowed"; in every accepted
\* pipeline the parser state's RETURN count is at most 1, while each side
\* of a UNION may carry its own RETURN.
IsParser == op.kind = "parser"

\* the RETURNs of the pipeline that input position i belongs to, up to i
RECURSIVE ReturnsUpTo(_)
ReturnsUpTo(i) ==
    IF i = 0 \/ op.input[i] = "union" THEN 0
    ELSE ReturnsUpTo(i - 1) + (IF op.input[i] = "return" THEN 1 ELSE 0)

TwoReturnsInPipeline == \E i \in 1..Len(op.input) : ReturnsUpTo(i) > 1

C23_OneReturnPerPipeline ==
    IsParser =>
        /\ (op.done \/ op.err # NoErr) =>
              /\ TwoReturnsInPipeline => op.err = ErrOnlyOneReturn
              /\ op.err # NoErr => op.err = ErrOnlyOneReturn
        /\ op.err = NoErr =>
              /\ op.ps.returns <= 1
              /\ \A k \in 1..Len(op.counts) : op.counts[k] <= 1

\* both sides of a UNION end in a RETURN and the statement is accepted
C23_Witness ==
    /\ IsParser /\ op.done /\ op.err = NoErr
    /\ Len(op.counts) = 2 /\ op.counts[1] = 1 /\ op.counts[2] = 1

\* C25: whenever the continuation fires, the match stack holds one record
\* per traversed hop of the current path, in path order: nothing of an
\* abandoned branch is left on it and no hop below the minimum is missing;
\* when find() returns, the stack has the depth it had on entry.
StackDepthIsPathLength(e) == Len(e.stack) = Len(e.trail)

C25_StackIsPath ==
    op = NoOp =>
        /\ \A i \in 1..Len(st.out) : StackDepthIsPathLength(st.out[i])
        /\ st.err = NoErr => st.matches = <<>>

\* C27: the match record pushed for the edge traversed at hop h carries
\* the type and the properties of that very edge, the current record of
\* level h, for every h >= 0.
TopIsEdge(e) ==
    (Len(e.stack) > 0 /\ Len(e.trail) > 0) =>
        /\ e.stack[Len(e.stack)].properties = PropsOf(Rec(e.trail[Len(e.trail)]))
        /\ e.stack[Len(e.stack)].type = st.rtype

C27_PushedIsCurrentEdge ==
    op = NoOp => \A i \in 1..Len(st.out) : TopIsEdge(st.out[i])

\* C29: for a RETURN with ORDER BY, after any sequence of initialize() and
\* run() calls there are as many captured sort-key tuples as accumulated
\* records and the i-th tuple is the one of the i-th record's scope.
C29_SortKeysAligned ==
    (IsReturn /\ op.has_order_by) =>
        /\ Len(op.order_by.sort_keys) = Len(op.results)
        /\ Len(op.results) = Len(op.emitted)
        /\ \A i \in 1..Len(op.results) :
              i <= Len(op.order_by.sort_keys) => op.order_by.sort_keys[i] = KeysOf(i)

====
